---- MODULE Spec2Model ----
(***************************************************************************)
(* Model of the animation loading / playback lifecycle of the viewer       *)
(* component SimpleFBXViewer (src/src/App.js).                             *)
(*                                                                         *)
(* React state (speed, isPaused, isLoading, loadingProgress,               *)
(* selectedAnimation, animations) and the persistent refs (sceneRef,       *)
(* modelRef, mixerRef, currentAnimationRef, animationFrameIdRef) are the   *)
(* variables.  Every event handler, timer callback, loader callback and    *)
(* frame callback is one action that runs to completion.                   *)
(*                                                                         *)
(* A loaded asset (the fbx object handed to the success callback) is named *)
(* by the index of the request that produced it.  A ref holding null is 0  *)
(* (NoAction for currentAnimationRef).                                     *)
(***************************************************************************)
EXTENDS Integers, Sequences, FiniteSets, TLC

\* ---------------------------------------------------------------- bounds
MaxRequests == 2      \* deferred loads (initial one included) per run
MaxNow == 1           \* clock ticks (Date.now / THREE.Clock) per run
MaxFrames == 3        \* animation frames requested per run
ClipDuration == 2     \* length of an asset's first clip, in ticks

\* ------------------------------------------------------ program constants
InitialSpeed == 1
MaxSpeed == 2         \* the slider's max; speeds are in units of 1.0x
InitialAnimation == "startwalk"

AnimIds == {"startwalk", "seated"}
UnknownId == "unknown"
Speeds == 1..MaxSpeed
Percents == {100}
Outcomes == {"clip", "noclip", "throwCtor", "throwSetup"}

NoAction == [root |-> 0, timeScale |-> 0, paused |-> FALSE, time |-> 0]

VARIABLES
    phase,                \* "init" | "mounted" | "aborted" | "torndown" | "gone"
    speed, isPaused, isLoading, loadingProgress, selectedAnimation,
    animations,           \* id -> [loaded, active]
    sceneRef,             \* TRUE iff sceneRef.current is a scene
    sceneChildren,        \* models added to that scene object
    modelRef,             \* asset in modelRef.current, 0 = null
    mixerRef,             \* asset the mixer in mixerRef.current is bound to
    currentAnimationRef,  \* the action: [root, timeScale, paused, time]
    animationFrameIdRef,  \* id stored by animate(), 0 = null
    rafPending,           \* id of the frame callback the browser holds, 0 = none
    now,                  \* the clock
    clockOld,             \* THREE.Clock.oldTime
    lastFrameTime,        \* history: the clock when animate ran last
    requests,             \* the deferred loads, in order of creation
    lastIssued,           \* history: request whose loader.load ran last
    threw                 \* history: a callback raised an uncaught exception

vars == <<phase, speed, isPaused, isLoading, loadingProgress, selectedAnimation,
          animations, sceneRef, sceneChildren, modelRef, mixerRef,
          currentAnimationRef, animationFrameIdRef, rafPending, now, clockOld,
          lastFrameTime, requests, lastIssued, threw>>

uiState == <<speed, isPaused, isLoading, loadingProgress, selectedAnimation,
             animations>>
refs == <<sceneRef, sceneChildren, modelRef, mixerRef, currentAnimationRef>>
loop == <<animationFrameIdRef, rafPending, clockOld, lastFrameTime>>

\* The component is rendered: its handlers can be invoked and its state
\* setters take effect.  Setters called after unmount are dropped by React.
Rendered == phase \in {"mounted", "aborted"}

SetIfRendered(old, new) == IF Rendered THEN new ELSE old

Init ==
    /\ phase = "init"
    /\ speed = InitialSpeed
    /\ isPaused = FALSE
    /\ isLoading = TRUE
    /\ loadingProgress = 0
    /\ selectedAnimation = InitialAnimation
    /\ animations = [a \in AnimIds |-> [loaded |-> FALSE, active |-> FALSE]]
    /\ sceneRef = FALSE
    /\ sceneChildren = {}
    /\ modelRef = 0
    /\ mixerRef = 0
    /\ currentAnimationRef = NoAction
    /\ animationFrameIdRef = 0
    /\ rafPending = 0
    /\ now = 0
    /\ clockOld = 0
    /\ lastFrameTime = 0
    /\ requests = <<>>
    /\ lastIssued = 0
    /\ threw = FALSE

\* A deferred load: the closure handed to setTimeout.  speed and isPaused are
\* the values of the render whose loadAnimationModel the closure captured.
\* shown and shownMixer are history fields: the asset in modelRef and the
\* mixer in mixerRef when the load was asked for.
NewRequest(id, initial) ==
    [animationId |-> id, status |-> "timer", initial |-> initial,
     speed |-> speed, isPaused |-> isPaused,
     loadId |-> 0, loadingId |-> 0, shown |-> modelRef,
     shownMixer |-> mixerRef]

\* A request whose callback has run: the closure and the loader are garbage,
\* only the asset (named by the request) and its animation remain.
Done(r) ==
    [requests EXCEPT ![r] = [animationId |-> @.animationId, status |-> "done",
                             initial |-> @.initial, speed |-> 0,
                             isPaused |-> FALSE, loadId |-> 0, loadingId |-> 0,
                             shown |-> 0, shownMixer |-> 0]]

\* setAnimations(prev => prev.map(anim => ({...anim, active: anim.id === id})))
MarkOnlyActive(anims, id) ==
    [a \in AnimIds |-> [anims[a] EXCEPT !.active = (a = id)]]

\* Variant: the success callback leaves the other descriptors' active flag.
MarkLoadedActiveKeepOthers(anims, id) ==
    [a \in AnimIds |-> [loaded |-> IF a = id THEN TRUE ELSE anims[a].loaded,
                        active |-> IF a = id THEN TRUE ELSE anims[a].active]]

\* ... loaded: anim.id === id ? true : anim.loaded, active: anim.id === id
MarkLoadedActive(anims, id) ==
    [a \in AnimIds |-> [loaded |-> IF a = id THEN TRUE ELSE anims[a].loaded,
                        active |-> (a = id)]]

\* ... active: anim.id === id ? false : anim.active
ClearActive(anims, id) ==
    [a \in AnimIds |-> [anims[a] EXCEPT !.active = IF a = id THEN FALSE ELSE @]]

\* mixer.update(delta) as seen through the action in currentAnimationRef:
\* only actions of the updated mixer advance, a paused action has effective
\* time scale 0, and LoopRepeat wraps the time at the clip's duration.
MixerUpdate(act, mixer, delta) ==
    IF act # NoAction /\ act.root = mixer /\ ~act.paused
    THEN [act EXCEPT !.time = (@ + delta * act.timeScale) % ClipDuration]
    ELSE act

\* ------------------------------------------------------------ useEffect init
\* Variant: the loop and the initial timer are started before the mount
\* target is looked at.
MountLoopFirst(mountPresent) ==
    /\ phase = "init"
    /\ ~sceneRef
    /\ sceneRef' = TRUE
    /\ phase' = IF mountPresent THEN "mounted" ELSE "aborted"
    /\ clockOld' = now
    /\ requests' = Append(requests, NewRequest(InitialAnimation, TRUE))
    /\ animationFrameIdRef' = 1
    /\ rafPending' = 1
    /\ lastFrameTime' = now
    /\ UNCHANGED <<uiState, sceneChildren, modelRef, mixerRef,
                   currentAnimationRef, now, lastIssued, threw>>

Mount(mountPresent) ==
    /\ phase = "init"
    /\ ~sceneRef
    /\ sceneRef' = TRUE
    /\ IF mountPresent
       THEN /\ phase' = "mounted"
            /\ clockOld' = now
            /\ requests' = Append(requests, NewRequest(InitialAnimation, TRUE))
            /\ animationFrameIdRef' = 1
            /\ rafPending' = 1
            /\ lastFrameTime' = now
       ELSE /\ phase' = "aborted"
            /\ UNCHANGED <<clockOld, requests, animationFrameIdRef, rafPending,
                           lastFrameTime>>
    /\ UNCHANGED <<uiState, sceneChildren, modelRef, mixerRef,
                   currentAnimationRef, now, lastIssued, threw>>

\* ------------------------------------------------------------------ animate
animate ==
    /\ rafPending # 0
    /\ rafPending < MaxFrames
    /\ rafPending' = rafPending + 1
    /\ animationFrameIdRef' = rafPending + 1
    /\ lastFrameTime' = now
    /\ IF mixerRef # 0
       THEN /\ clockOld' = now
            /\ currentAnimationRef' =
                   MixerUpdate(currentAnimationRef, mixerRef, now - clockOld)
       ELSE UNCHANGED <<clockOld, currentAnimationRef>>
    /\ UNCHANGED <<phase, uiState, sceneRef, sceneChildren, modelRef, mixerRef,
                   now, requests, lastIssued, threw>>

\* -------------------------------------------------------------- updateSpeed
\* Variant: the speed change restarts the clip (action.reset()).
updateSpeedRestart(newSpeed) ==
    /\ Rendered
    /\ ~isLoading
    /\ speed' = newSpeed
    /\ currentAnimationRef' =
           IF currentAnimationRef # NoAction /\ mixerRef # 0
           THEN [currentAnimationRef EXCEPT !.timeScale = newSpeed, !.time = 0,
                                            !.paused = FALSE]
           ELSE currentAnimationRef
    /\ UNCHANGED <<phase, isPaused, isLoading, loadingProgress,
                   selectedAnimation, animations, sceneRef, sceneChildren,
                   modelRef, mixerRef, loop, now, requests, lastIssued, threw>>

updateSpeed(newSpeed) ==
    /\ Rendered
    /\ ~isLoading                       \* the slider is disabled while loading
    /\ speed' = newSpeed
    /\ currentAnimationRef' =
           IF currentAnimationRef # NoAction /\ mixerRef # 0
           THEN [currentAnimationRef EXCEPT !.timeScale = newSpeed]
           ELSE currentAnimationRef
    /\ UNCHANGED <<phase, isPaused, isLoading, loadingProgress,
                   selectedAnimation, animations, sceneRef, sceneChildren,
                   modelRef, mixerRef, loop, now, requests, lastIssued, threw>>

\* -------------------------------------------------------------- togglePause
\* The effect of togglePause on <<isPaused, currentAnimationRef>>.
togglePauseResult(paused, act, mixer) ==
    IF mixer = 0 \/ act = NoAction
    THEN <<paused, act>>
    ELSE <<~paused, [act EXCEPT !.paused = ~paused]>>

togglePause ==
    /\ Rendered
    /\ LET res == togglePauseResult(isPaused, currentAnimationRef, mixerRef)
       IN  /\ isPaused' = res[1]
           /\ currentAnimationRef' = res[2]
    /\ UNCHANGED <<phase, speed, isLoading, loadingProgress, selectedAnimation,
                   animations, sceneRef, sceneChildren, modelRef, mixerRef,
                   loop, now, requests, lastIssued, threw>>

\* onClick of the Pause/Resume button, disabled while loading
togglePauseButton ==
    /\ ~isLoading
    /\ togglePause

\* keydown of the space bar
handleKeyPress ==
    /\ togglePause

\* ---------------------------------------------------- handleAnimationChange
\* Variant: no test for the descriptor being active already.
handleAnimationChangeReload(animationId) ==
    /\ Rendered
    /\ IF animationId \notin AnimIds
       THEN UNCHANGED <<uiState, requests>>
       ELSE /\ Len(requests) < MaxRequests
            /\ isLoading' = TRUE
            /\ loadingProgress' = 0
            /\ selectedAnimation' = animationId
            /\ animations' = MarkOnlyActive(animations, animationId)
            /\ isPaused' = FALSE
            /\ requests' = Append(requests, NewRequest(animationId, FALSE))
            /\ UNCHANGED speed
    /\ UNCHANGED <<phase, refs, loop, now, lastIssued, threw>>

\* Variant: the pause state is not reset by a selection.
handleAnimationChangeKeepPause(animationId) ==
    /\ Rendered
    /\ IF animationId \notin AnimIds
       THEN UNCHANGED <<uiState, requests>>
       ELSE IF animations[animationId].active
       THEN UNCHANGED <<uiState, requests>>
       ELSE /\ Len(requests) < MaxRequests
            /\ isLoading' = TRUE
            /\ loadingProgress' = 0
            /\ selectedAnimation' = animationId
            /\ animations' = MarkOnlyActive(animations, animationId)
            /\ requests' = Append(requests, NewRequest(animationId, FALSE))
            /\ UNCHANGED <<speed, isPaused>>
    /\ UNCHANGED <<phase, refs, loop, now, lastIssued, threw>>

\* Variant: an id that matches no descriptor is shown as the selection and
\* blocks the controls.
handleAnimationChangeSelectUnknown(animationId) ==
    /\ Rendered
    /\ IF animationId \notin AnimIds
       THEN /\ isLoading' = TRUE
            /\ selectedAnimation' = animationId
            /\ UNCHANGED <<speed, isPaused, loadingProgress, animations,
                           requests>>
       ELSE IF animations[animationId].active
       THEN UNCHANGED <<uiState, requests>>
       ELSE /\ Len(requests) < MaxRequests
            /\ isLoading' = TRUE
            /\ loadingProgress' = 0
            /\ selectedAnimation' = animationId
            /\ animations' = MarkOnlyActive(animations, animationId)
            /\ isPaused' = FALSE
            /\ requests' = Append(requests, NewRequest(animationId, FALSE))
            /\ UNCHANGED speed
    /\ UNCHANGED <<phase, refs, loop, now, lastIssued, threw>>

handleAnimationChange(animationId) ==
    /\ Rendered
    /\ IF animationId \notin AnimIds
       THEN UNCHANGED <<uiState, requests>>
       ELSE IF animations[animationId].active
       THEN UNCHANGED <<uiState, requests>>
       ELSE /\ Len(requests) < MaxRequests
            /\ isLoading' = TRUE
            /\ loadingProgress' = 0
            /\ selectedAnimation' = animationId
            /\ animations' = MarkOnlyActive(animations, animationId)
            /\ isPaused' = FALSE
            /\ requests' = Append(requests, NewRequest(animationId, FALSE))
            /\ UNCHANGED speed
    /\ UNCHANGED <<phase, refs, loop, now, lastIssued, threw>>

\* ------------------------------------------------------- loadAnimationModel
\* The timer callback: the body of loadAnimationModel up to loader.load, and
\* for the initial load the setAnimations call that follows it.
\* Timers of equal delay fire in the order they were set; the initial one
\* (100 ms) may fire before or after those of selections (50 ms).
TimerDue(r) ==
    /\ r \in 1..Len(requests)
    /\ requests[r].status = "timer"
    /\ \/ requests[r].initial
       \/ \A q \in 1..(r - 1) :
             requests[q].initial \/ requests[q].status # "timer"

loadAnimationModel(r) ==
    /\ TimerDue(r)
    /\ IF ~sceneRef
       THEN /\ requests' = Done(r)
            /\ UNCHANGED <<sceneChildren, modelRef, mixerRef,
                           currentAnimationRef, lastIssued>>
       ELSE /\ sceneChildren' = sceneChildren \ {modelRef}
            /\ modelRef' = 0
            /\ IF mixerRef # 0
               THEN mixerRef' = 0 /\ currentAnimationRef' = NoAction
               ELSE UNCHANGED <<mixerRef, currentAnimationRef>>
            /\ requests' = [requests EXCEPT ![r].status = "loading",
                                            ![r].loadId = now,
                                            ![r].loadingId = now]
            /\ lastIssued' = r
    /\ animations' = IF requests[r].initial
                     THEN SetIfRendered(animations,
                                        MarkOnlyActive(animations, InitialAnimation))
                     ELSE animations
    /\ UNCHANGED <<phase, speed, isPaused, isLoading, loadingProgress,
                   selectedAnimation, sceneRef, loop, now, threw>>

\* ------------------------------------------------------- loader callbacks
\* if (loader.loadingId !== loadId): the check made by the success callback.
Superseded(req) == req.loadingId # req.loadId

\* The action installed for the asset's first clip: timeScale from the
\* captured speed, reset() (time 0, not paused), play(), then paused when the
\* captured isPaused is set.
NewAction(r, req) ==
    [root |-> r, timeScale |-> req.speed, paused |-> req.isPaused, time |-> 0]

\* scene.add(fbx) behind the check that the scene still exists
AddToScene(children, r) == IF sceneRef THEN children \cup {r} ELSE children

\* Variant: the asset is stored and added to the scene only once its clip
\* has been set up.
onLoadAttachWithClip(r, outcome) ==
    /\ r \in 1..Len(requests)
    /\ requests[r].status = "loading"
    /\ requests' = Done(r)
    /\ IF Superseded(requests[r])
       THEN UNCHANGED <<isLoading, animations, sceneChildren, modelRef,
                       mixerRef, currentAnimationRef>>
       ELSE /\ isLoading' = SetIfRendered(isLoading, FALSE)
            /\ IF sceneRef /\ outcome = "clip"
               THEN /\ modelRef' = r
                    /\ sceneChildren' = AddToScene(sceneChildren, r)
                    /\ mixerRef' = r
                    /\ currentAnimationRef' = NewAction(r, requests[r])
                    /\ animations' =
                         SetIfRendered(animations,
                            MarkLoadedActive(animations, requests[r].animationId))
               ELSE UNCHANGED <<modelRef, sceneChildren, mixerRef,
                               currentAnimationRef, animations>>
    /\ UNCHANGED <<phase, speed, isPaused, loadingProgress, selectedAnimation,
                   sceneRef, loop, now, lastIssued, threw>>

\* The success callback of loader.load.  outcome says what the asset and the
\* engine do: a first clip that plays, no clip at all, the AnimationMixer
\* constructor throwing, or a later call of the set-up throwing.
onLoad(r, outcome) ==
    /\ r \in 1..Len(requests)
    /\ requests[r].status = "loading"
    /\ requests' = Done(r)
    /\ IF Superseded(requests[r])
       THEN UNCHANGED <<isLoading, animations, sceneChildren, modelRef,
                           mixerRef, currentAnimationRef>>
       ELSE /\ isLoading' = SetIfRendered(isLoading, FALSE)
            /\ modelRef' = r
            /\ sceneChildren' = AddToScene(sceneChildren, r)
            /\ IF sceneRef /\ outcome = "clip"
               THEN /\ mixerRef' = r
                    /\ currentAnimationRef' = NewAction(r, requests[r])
                    /\ animations' =
                         SetIfRendered(animations,
                            MarkLoadedActive(animations, requests[r].animationId))
               ELSE IF sceneRef /\ outcome = "throwSetup"
               THEN /\ mixerRef' = r
                    /\ UNCHANGED <<currentAnimationRef, animations>>
               ELSE UNCHANGED <<mixerRef, currentAnimationRef, animations>>
    /\ UNCHANGED <<phase, speed, isPaused, loadingProgress, selectedAnimation,
                   sceneRef, loop, now, lastIssued, threw>>

\* Variant: a failed load is asked for again.
onErrorRetry(r) ==
    /\ r \in 1..Len(requests)
    /\ requests[r].status = "loading"
    /\ requests' = [requests EXCEPT ![r].status = "timer"]
    /\ isLoading' = SetIfRendered(isLoading, FALSE)
    /\ animations' = SetIfRendered(animations,
                         ClearActive(animations, requests[r].animationId))
    /\ UNCHANGED <<phase, speed, isPaused, loadingProgress, selectedAnimation,
                   refs, loop, now, lastIssued, threw>>

\* Variant: a failed load leaves the loading flag set.
onErrorKeepLoading(r) ==
    /\ r \in 1..Len(requests)
    /\ requests[r].status = "loading"
    /\ requests' = Done(r)
    /\ animations' = SetIfRendered(animations,
                         ClearActive(animations, requests[r].animationId))
    /\ UNCHANGED <<phase, speed, isPaused, isLoading, loadingProgress,
                   selectedAnimation, refs, loop, now, lastIssued, threw>>

\* The error callback of loader.load.
onError(r) ==
    /\ r \in 1..Len(requests)
    /\ requests[r].status = "loading"
    /\ requests' = Done(r)
    /\ isLoading' = SetIfRendered(isLoading, FALSE)
    /\ animations' = SetIfRendered(animations,
                         ClearActive(animations, requests[r].animationId))
    /\ UNCHANGED <<phase, speed, isPaused, loadingProgress, selectedAnimation,
                   refs, loop, now, lastIssued, threw>>

\* The progress callback of loader.load, for a length-computable event.
onProgress(r, percent) ==
    /\ r \in 1..Len(requests)
    /\ requests[r].status = "loading"
    /\ loadingProgress' = SetIfRendered(loadingProgress, percent)
    /\ UNCHANGED <<phase, speed, isPaused, isLoading, selectedAnimation,
                   animations, refs, loop, now, requests, lastIssued, threw>>

\* ---------------------------------------------------------------- unmount
\* Variant: the cleanup leaves the scheduled frame callback in place.
cleanupNoCancel ==
    /\ phase = "mounted"
    /\ phase' = "torndown"
    /\ sceneRef' = FALSE
    /\ modelRef' = 0
    /\ mixerRef' = 0
    /\ currentAnimationRef' = NoAction
    /\ animationFrameIdRef' = 0
    /\ UNCHANGED <<uiState, sceneChildren, rafPending, now, clockOld,
                   lastFrameTime, requests, lastIssued, threw>>

\* The cleanup function returned by the init effect.
cleanup ==
    /\ phase = "mounted"
    /\ phase' = "torndown"
    /\ rafPending' = IF animationFrameIdRef # 0 /\ rafPending = animationFrameIdRef
                     THEN 0 ELSE rafPending
    /\ sceneRef' = FALSE
    /\ modelRef' = 0
    /\ mixerRef' = 0
    /\ currentAnimationRef' = NoAction
    /\ animationFrameIdRef' = 0
    /\ UNCHANGED <<uiState, sceneChildren, now, clockOld, lastFrameTime,
                   requests, lastIssued, threw>>

\* Unmount after an aborted initialization: the effect returned no cleanup.
unmountAborted ==
    /\ phase = "aborted"
    /\ phase' = "gone"
    /\ UNCHANGED <<uiState, refs, loop, now, requests, lastIssued, threw>>

\* ------------------------------------------------------------------ clock
Tick ==
    /\ now < MaxNow
    /\ now' = now + 1
    /\ UNCHANGED <<phase, uiState, refs, loop, requests, lastIssued, threw>>

Next ==
    \/ \E mountPresent \in BOOLEAN : Mount(mountPresent)
    \/ animate
    \/ \E newSpeed \in Speeds : updateSpeed(newSpeed)
    \/ togglePauseButton
    \/ handleKeyPress
    \/ \E animationId \in AnimIds \cup {UnknownId} : handleAnimationChange(animationId)
    \/ \E r \in 1..MaxRequests : loadAnimationModel(r)
    \/ \E r \in 1..MaxRequests, outcome \in Outcomes : onLoad(r, outcome)
    \/ \E r \in 1..MaxRequests : onError(r)
    \/ \E r \in 1..MaxRequests, percent \in Percents : onProgress(r, percent)
    \/ cleanup
    \/ unmountAborted
    \/ Tick

Spec == Init /\ [][Next]_vars

\* =================================================================== claims
ActiveSet == {a \in AnimIds : animations[a].active}
AllDone == \A r \in 1..Len(requests) : requests[r].status = "done"
ClipAttached == currentAnimationRef # NoAction
applied == <<modelRef, sceneChildren, mixerRef, currentAnimationRef, animations>>

\* C1: a load result is applied (model attached, mixer installed, descriptor
\* marked) only if its request is the most recently issued one, so once every
\* load has completed the model in place is the one of the last request.
C1_LastRequestWins ==
    /\ [](phase = "mounted" /\ AllDone /\ modelRef # 0 => modelRef = lastIssued)
    /\ [][\A r \in 1..MaxRequests, o \in Outcomes :
            (onLoad(r, o) /\ phase = "mounted" /\ r # lastIssued)
            => UNCHANGED applied]_vars

\* C2: in every reachable state at most one descriptor has active = true.
C2_AtMostOneActive == Cardinality(ActiveSet) <= 1

\* C2 witness: two loads have completed, and a descriptor is active for a
\* model in place.
C2_Witness ==
    /\ Len(requests) = 2
    /\ AllDone
    /\ Cardinality(ActiveSet) = 1
    /\ modelRef # 0

\* C3: at most one model is attached to the scene in every reachable state.
C3_AtMostOneModel == Cardinality(sceneChildren) <= 1

\* C4: when the load of the still-current request fails while a previously
\* loaded model was displayed, then afterwards isLoading is false, no
\* descriptor is active and that model is still attached with its mixer.
C4_FailureKeepsModel ==
    [][\A r \in 1..MaxRequests :
          (onError(r) /\ Rendered /\ r = lastIssued /\ requests[r].shown # 0)
          => /\ isLoading' = FALSE
             /\ ActiveSet' = {}
             /\ modelRef' = requests[r].shown
             /\ requests[r].shown \in sceneChildren'
             /\ mixerRef' = requests[r].shownMixer]_vars

\* C5: the completion (success or failure) of a superseded request changes
\* none of isLoading, the descriptors, the attached model, the mixer, the clip.
C5_StaleCompletionIsNoOp ==
    [][\A r \in 1..MaxRequests :
          (r # lastIssued /\ (onError(r) \/ \E o \in Outcomes : onLoad(r, o)))
          => UNCHANGED <<isLoading, applied>>]_vars

\* C6: the active descriptor, when there is one, names the animation of the
\* model currently attached to the scene, and an attached, playing model has
\* an active descriptor.
C6_ActiveIsAttached ==
    Rendered =>
      /\ ActiveSet # {} =>
            /\ modelRef # 0
            /\ modelRef \in sceneChildren
            /\ ActiveSet = {requests[modelRef].animationId}
      /\ (ClipAttached /\ modelRef \in sceneChildren) => ActiveSet # {}

\* C7: when the result of the current request is applied with a clip, the
\* clip's time scale is the speed and its paused flag is isPaused, as they
\* are at that moment.
C7_ClipStartsWithCurrentPlayback ==
    [][\A r \in 1..MaxRequests :
          (onLoad(r, "clip") /\ Rendered /\ sceneRef /\ r = lastIssued)
          => /\ currentAnimationRef'.timeScale = speed'
             /\ currentAnimationRef'.paused = isPaused']_vars

\* C8: after the cleanup has run no frame callback is left or runs, and no
\* late timer or load completion adds to or removes from the scene, or throws.
C8_TeardownIsFinal ==
    /\ [](phase = "torndown" => rafPending = 0 /\ ~threw)
    /\ [][phase = "torndown" =>
            /\ ~animate
            /\ sceneChildren' = sceneChildren]_vars

\* C8 witness: the cleanup ran while loads were pending and they have all
\* completed since, one of them successfully (it left its asset in modelRef).
C8_Witness ==
    /\ phase = "torndown"
    /\ Len(requests) = 2
    /\ AllDone
    /\ modelRef # 0

\* C9: with a clip attached, togglePause twice in succession restores
\* isPaused and the clip's paused flag and leaves the clip's time alone.
C9_DoubleToggleRestores ==
    (Rendered /\ ClipAttached) =>
      LET once == togglePauseResult(isPaused, currentAnimationRef, mixerRef)
          twice == togglePauseResult(once[1], once[2], mixerRef)
      IN  /\ twice[1] = isPaused
          /\ twice[2].paused = currentAnimationRef.paused
          /\ twice[2].time = currentAnimationRef.time

\* C10: updateSpeed(v) sets speed to v and, with a clip attached, the clip's
\* time scale to v in the same step; the clip's time, the paused flags, the
\* model, the descriptors and isLoading are unchanged.
C10_SetSpeedFrame ==
    [][\A v \in Speeds :
          updateSpeed(v)
          => /\ speed' = v
             /\ currentAnimationRef' =
                   IF ClipAttached
                   THEN [currentAnimationRef EXCEPT !.timeScale = v]
                   ELSE NoAction
             /\ UNCHANGED <<isPaused, isLoading, animations, modelRef,
                            sceneChildren, mixerRef>>]_vars

\* C10 witness: only the initial load (started at the initial speed) was made
\* and its clip, already advanced, now runs at another speed.
C10_Witness ==
    /\ Len(requests) = 1
    /\ ClipAttached
    /\ currentAnimationRef.timeScale # InitialSpeed
    /\ currentAnimationRef.timeScale = speed
    /\ currentAnimationRef.time # 0

selection == <<isLoading, isPaused, loadingProgress, selectedAnimation,
               animations, requests>>

\* C11: selecting the descriptor that is already active issues no load and
\* leaves isLoading, isPaused, the descriptors, the model and the mixer alone.
C11_ReselectActiveIsNoOp ==
    [][\A id \in AnimIds :
          (handleAnimationChange(id) /\ animations[id].active)
          => UNCHANGED <<selection, lastIssued, refs>>]_vars

\* C11 witness: the active descriptor's load is still in flight, where a
\* selection of it changes nothing.
C11_Witness ==
    /\ Rendered
    /\ isLoading
    /\ \E r \in 1..Len(requests) :
          /\ requests[r].status = "loading"
          /\ animations[requests[r].animationId].active
          /\ Len(requests) < MaxRequests

\* C12: selecting a known, non-active descriptor makes it the only active
\* one, clears isPaused, sets isLoading and progress 0 and defers exactly one
\* load of it; the deferred load calls the loader once, when its timer fires
\* with the scene in place, and never again.
C12_SelectStartsOneLoad ==
    /\ [][\A id \in AnimIds :
            (handleAnimationChange(id) /\ ~animations[id].active)
            => /\ ActiveSet' = {id}
               /\ ~isPaused'
               /\ isLoading'
               /\ loadingProgress' = 0
               /\ Len(requests') = Len(requests) + 1
               /\ SubSeq(requests', 1, Len(requests)) = requests
               /\ requests'[Len(requests')].animationId = id
               /\ requests'[Len(requests')].status = "timer"]_vars
    /\ [][\A r \in 1..Len(requests) :
            /\ (loadAnimationModel(r) /\ sceneRef)
               => /\ requests'[r].status = "loading"
                  /\ requests'[r].animationId = requests[r].animationId
                  /\ lastIssued' = r
            /\ (requests[r].status # "timer")
               => /\ Len(requests') >= r
                  /\ requests'[r].status # "timer"
                  /\ (lastIssued' = r => lastIssued = r)]_vars

\* C12 witness: the load of a selection made while another animation was
\* playing and paused is in flight.
C12_Witness ==
    /\ Len(requests) = 2
    /\ requests[1].status = "done"
    /\ requests[2].status = "loading"
    /\ requests[2].shown # 0
    /\ ActiveSet = {requests[2].animationId}
    /\ requests[2].isPaused
    /\ ~isPaused
    /\ isLoading

NoClipOutcomes == Outcomes \ {"clip"}

\* C13: when the current load succeeds with no clip, or the set-up of the
\* mixer or clip throws, the asset is still attached, isLoading is false,
\* nothing is thrown and the asset has no running clip.
C13_StaticModelShown ==
    [][\A r \in 1..MaxRequests, o \in NoClipOutcomes :
          (onLoad(r, o) /\ Rendered /\ r = lastIssued)
          => /\ modelRef' = r
             /\ r \in sceneChildren'
             /\ ~isLoading'
             /\ ~threw'
             /\ currentAnimationRef'.root # r]_vars

\* C13 witness: the only load made has completed, its asset is attached and
\* no mixer or clip is installed.
C13_Witness ==
    /\ phase = "mounted"
    /\ Len(requests) = 1
    /\ AllDone
    /\ modelRef = 1
    /\ 1 \in sceneChildren
    /\ mixerRef = 0
    /\ ~isLoading

\* C14: with the mount target missing the initialization aborts: no frame
\* callback is ever scheduled or run and the initial load is never deferred
\* or issued.
C14_AbortedInitStartsNothing ==
    /\ [](phase \in {"aborted", "gone"} =>
            /\ rafPending = 0
            /\ animationFrameIdRef = 0
            /\ \A r \in 1..Len(requests) : ~requests[r].initial)
    /\ [][(phase = "aborted" \/ phase = "gone") => ~animate]_vars

\* C14 witness: after an aborted initialization the user has made
\* selections and their loads have completed.
C14_Witness ==
    /\ phase = "aborted"
    /\ Len(requests) = 2
    /\ AllDone
    /\ modelRef # 0

ModelLoaded == modelRef # 0 /\ modelRef \in sceneChildren

\* C16: togglePause inverts isPaused whenever a model is loaded, also one
\* shown without a clip, and sets an attached clip's paused flag to the new
\* isPaused; with no model loaded it changes nothing.
C16_TogglePauseNeedsOnlyModel ==
    Rendered =>
      LET res == togglePauseResult(isPaused, currentAnimationRef, mixerRef)
      IN  IF ModelLoaded
          THEN /\ res[1] = ~isPaused
               /\ ClipAttached => res[2].paused = ~isPaused
          ELSE res = <<isPaused, currentAnimationRef>>

\* C17: a frame with a mixer attached advances the mixer by the time elapsed
\* since the frame before it.
C17_FrameAdvancesByFrameInterval ==
    [][(animate /\ mixerRef # 0)
       => currentAnimationRef' =
             MixerUpdate(currentAnimationRef, mixerRef, now - lastFrameTime)]_vars

InFlight == {r \in 1..Len(requests) : requests[r].status = "loading"}

\* C18: the tokens of any two load requests differ, and the token test made
\* at completion tells whether the request is the most recently issued one.
C18_TokensUniqueAndShared ==
    phase = "mounted" =>
      /\ \A r, q \in InFlight : r # q => requests[r].loadId # requests[q].loadId
      /\ \A r \in InFlight : Superseded(requests[r]) <=> (r # lastIssued)

\* C19: after the cleanup the scene, model, mixer and clip refs are empty in
\* every later state.
C19_RefsStayEmpty ==
    phase = "torndown" =>
      /\ ~sceneRef
      /\ modelRef = 0
      /\ mixerRef = 0
      /\ currentAnimationRef = NoAction

\* C20: a descriptor's loaded flag is set by every successful load of its
\* asset, with or without a clip, by nothing else, and is never reset.
C20_LoadedIffFetched ==
    /\ [][\A r \in 1..MaxRequests, o \in Outcomes :
            (onLoad(r, o) /\ Rendered)
            => animations'[requests[r].animationId].loaded]_vars
    /\ [][\A a \in AnimIds :
            /\ animations[a].loaded => animations'[a].loaded
            /\ (~animations[a].loaded /\ animations'[a].loaded)
               => \E r \in 1..MaxRequests, o \in Outcomes :
                     onLoad(r, o) /\ requests[r].animationId = a]_vars

\* C21: a selection whose id matches no descriptor issues no load request and
\* leaves the descriptors, isLoading, the pause state, the selected value, the
\* attached model and the mixer as they were.
C21_UnknownIdIsNoOp ==
    [][handleAnimationChange(UnknownId)
       => /\ requests' = requests
          /\ lastIssued' = lastIssued
          /\ animations' = animations
          /\ isLoading' = isLoading
          /\ isPaused' = isPaused
          /\ selectedAnimation' = selectedAnimation
          /\ loadingProgress' = loadingProgress
          /\ UNCHANGED refs]_vars

\* A clip plays and the controls are free: the component is rendered, so an
\* unknown id can be selected, and there is a model, a mixer and a cleared
\* loading flag to keep.
C21_Witness ==
    /\ phase = "mounted"
    /\ ~isLoading
    /\ modelRef # 0
    /\ mixerRef = modelRef
    /\ ClipAttached

\* C22: while the most recently issued load has not completed, isLoading is
\* true; isLoading becomes false only through the completion (success or
\* failure) of that most recent request.
C22_LoadingUntilLatestCompletes ==
    /\ [](phase = "mounted" /\ lastIssued # 0
            /\ requests[lastIssued].status = "loading"
          => isLoading)
    /\ [][(phase = "mounted" /\ isLoading /\ ~isLoading')
          => /\ lastIssued # 0
             /\ requests[lastIssued].status = "loading"
             /\ requests'[lastIssued].status = "done"]_vars

\* C23: an installed mixer is bound to the current model, and that model is
\* attached to the scene, whatever the order of overlapping completions.
C23_MixerDrivesCurrentModel ==
    mixerRef # 0 => mixerRef = modelRef /\ modelRef \in sceneChildren

\* ------------------------------------------------------------- liveness
\* The browser fires every timer it was given, and the loader reports success
\* or failure for every request it was given.  Both stay enabled until they
\* happen, so weak fairness is what this scheduling amounts to.
LiveSpec ==
    /\ Spec
    /\ \A r \in 1..MaxRequests :
          /\ WF_vars(loadAnimationModel(r))
          /\ WF_vars(onError(r) \/ \E outcome \in Outcomes : onLoad(r, outcome))

\* C24: while the component stays mounted and no further selection is made,
\* after a selection of a known descriptor that was not active isLoading
\* eventually becomes false.
C24_LoadingEventuallyEnds ==
    \A k \in 1..MaxRequests :
       (Rendered /\ Len(requests) = k /\ ~requests[k].initial /\ isLoading)
       ~> (~isLoading \/ ~Rendered \/ Len(requests) > k)

\* The load asked for by a selection was the last one issued, it has
\* completed, and the loading flag is cleared while the component is rendered.
C24_Witness ==
    /\ Rendered
    /\ Len(requests) > 0
    /\ ~requests[Len(requests)].initial
    /\ requests[Len(requests)].status = "done"
    /\ lastIssued = Len(requests)
    /\ ~isLoading

====
